---- MODULE Spec2Model ----
(***************************************************************************)
(* livesplit-core auto splitting runtime (crates/livesplit-auto-splitting). *)
(*                                                                         *)
(* Several state machines share the variables below:                       *)
(*   Spec           the Runtime: construction, step(), run_script(), the   *)
(*                  host functions the guest calls, the world around it    *)
(*   SpecSig        Signature::new and Signature::scan of process.rs, on   *)
(*                  bounded signature strings and buffers                  *)
(*   SpecConfigure  push_pointer_path and push_offset filling the registry *)
(*   SpecRate       set_tick_rate for whole tick rates                     *)
(*   SpecName       Process::with_name over bounded process lists          *)
(*   SpecPages      Process::scan_signature over bounded region lists      *)
(*   SpecModules    Process::with_pid building the module map              *)
(*   SpecFs         path_open and fd_close on the guest's file table       *)
(*   SpecSleep      the embedder's loop of step() and sleep()              *)
(*   SpecCompile    Signature::new on strings with dropped characters      *)
(*   SpecPath       Process::path of a hooked Process                      *)
(***************************************************************************)
EXTENDS Integers, Sequences, FiniteSets, TLC

VARIABLES
    \* ---- Signature (process.rs) ----
    sig_str,        \* the signature string, a sequence of characters
    buf,            \* the buffer handed to Signature::scan
    overflow_checks,\* whether the build panics on integer overflow (debug)
    sig,            \* the compiled Signature, or NoSig before Signature::new
    scan_res,       \* result of Signature::scan: ScanNotRun, None, Panic or i >= 0
    \* ---- Process::scan_signature (process.rs) ----
    pages,          \* the mapped regions of the target, in address order
    scan_addr,      \* result of Process::scan_signature, or NoScan before it
    maps,           \* the map ranges get_process_maps lists for the pid opened
    modules,        \* Process.modules, once Process::with_pid has built it
    exe_path,       \* what Process::path returned, or NotAsked before it
    \* ---- FileSystem (runtime/wasi/fs.rs) ----
    files,          \* FileSystem.files: per slot, whether it holds an open file
    fs_ret,         \* the call the guest made last to the file system, and its result
    closed_fds,     \* the descriptors fd_close closed that path_open has not returned since
    \* ---- the embedder ----
    slept,          \* how long the last Runtime::sleep slept, NeverSlept before it
    \* ---- Runtime (runtime.rs) ----
    pc,             \* position of the runtime: the guest entry point running, or "ready"
    exports,        \* the functions the guest module exports
    process_name,   \* Environment.process_name
    pointer_paths,  \* Environment.pointer_paths
    process,        \* Environment.process: NoProcess or the pid hooked
    timer_state,    \* Runtime.timer_state
    is_loading_val, \* Runtime.is_loading_val
    game_time_val,  \* Runtime.game_time_val
    just_connected, \* local of step(): this tick hooked the process
    \* ---- the world ----
    procs,          \* pids of the running processes
    leaf_at_tick,   \* what target memory held where the registered paths point when
                    \* the last hooked step() was entered
    guest_ret,      \* what each should_* predicate of the guest answers this tick
    \* ---- observations ----
    calls,          \* what step() invoked during the current (or last) tick, in order
    result,         \* what the last step() gave the embedder
    host_ret,       \* outcome of the last host call of the running entry point
    error,          \* why the call into the guest failed that ended the runtime
    pushes,         \* number of successful push_pointer_path calls so far
    tick_rate       \* Environment.tick_rate, in nanoseconds

sig_vars == <<sig_str, buf, overflow_checks, sig, scan_res>>
rt_vars == <<pc, exports, process_name, pointer_paths, process, timer_state,
             is_loading_val, game_time_val, just_connected, procs, leaf_at_tick,
             guest_ret, calls, result, host_ret, error, pushes, tick_rate>>
proc_vars == <<pages, scan_addr, maps, modules, exe_path>>
fs_vars == <<files, fs_ret, closed_fds>>
vars == <<sig_vars, proc_vars, fs_vars, slept, rt_vars>>

----------------------------------------------------------------------------
(* Bounds *)

MaxSigChars == 6
MaxBufLen == 4

----------------------------------------------------------------------------
(* Signature: process.rs *)

u8Mod == 256

NoSig == [state |-> "none"]
ScanNotRun == -3
ScanPanic == -2
ScanNone == -1

Digits == <<"0", "1", "2", "3", "4", "5", "6", "7", "8", "9">>
LowerHex == <<"a", "b", "c", "d", "e", "f">>
UpperHex == <<"A", "B", "C", "D", "E", "F">>

IndexOf(s, c) == CHOOSE i \in 1..Len(s) : s[i] = c

InSeq(s, c) == \E i \in 1..Len(s) : s[i] = c

NotNibble == -1

\* Faulty variant of Nibble: upper-case hex digits are dropped.
NibbleLowerOnly(c) ==
    IF InSeq(Digits, c) THEN IndexOf(Digits, c) - 1
    ELSE IF InSeq(LowerHex, c) THEN IndexOf(LowerHex, c) - 1 + 10
    ELSE IF c = "?" THEN 16
    ELSE NotNibble

\* The closure of filter_map in Signature::new: the nibble a character stands
\* for, 0x10 for '?', NotNibble for a character that is dropped.
Nibble(c) ==
    IF InSeq(Digits, c) THEN IndexOf(Digits, c) - 1
    ELSE IF InSeq(LowerHex, c) THEN IndexOf(LowerHex, c) - 1 + 10
    ELSE IF InSeq(UpperHex, c) THEN IndexOf(UpperHex, c) - 1 + 10
    ELSE IF c = "?" THEN 16
    ELSE NotNibble

RECURSIVE Nibbles(_)
Nibbles(s) ==
    IF s = <<>> THEN <<>>
    ELSE IF Nibble(Head(s)) = NotNibble THEN Nibbles(Tail(s))
    ELSE <<Nibble(Head(s))>> \o Nibbles(Tail(s))

RECURSIVE BitOr(_, _)
BitOr(x, y) ==
    IF x = 0 THEN y
    ELSE IF y = 0 THEN x
    ELSE (IF x % 2 = 1 \/ y % 2 = 1 THEN 1 ELSE 0) + 2 * BitOr(x \div 2, y \div 2)

\* (a << 4) | b on u8: the shift drops the bits above bit 7.
SigByte(a, b) == BitOr((a * 16) % u8Mod, b)

\* Faulty variant of IsQuestionMarks: one '?' is enough.
IsQuestionMarksEither(a, b) == a = 16 \/ b = 16

IsQuestionMarks(a, b) == a = 16 /\ b = 16

\* The while-let loop: nibbles are consumed in pairs, an unpaired one is dropped.
RECURSIVE PairBytes(_)
PairBytes(n) ==
    IF Len(n) < 2 THEN <<>>
    ELSE <<SigByte(n[1], n[2])>> \o PairBytes(Tail(Tail(n)))

RECURSIVE PairMask(_)
PairMask(n) ==
    IF Len(n) < 2 THEN <<>>
    ELSE <<IsQuestionMarks(n[1], n[2])>> \o PairMask(Tail(Tail(n)))

\* The first loop over skip_offsets: state after the iterations 0..i-1 of
\* bytes.iter().zip(&mask).enumerate().take(end); indices here are 1-based.
RECURSIVE SkipLoop(_, _, _, _)
SkipLoop(bytes, mask, end, i) ==
    IF i = 0 THEN [skip |-> [b \in 0..255 |-> 0], unknown |-> 0]
    ELSE LET prev == SkipLoop(bytes, mask, end, i - 1)
         IN IF ~mask[i]
            THEN [prev EXCEPT !.skip[bytes[i]] = end - (i - 1)]
            ELSE [prev EXCEPT !.unknown = end - (i - 1)]

Min(a, b) == IF a < b THEN a ELSE b

\* Faulty variant of SkipOffsets: the wildcard distance `unknown` is not tracked, every
\* unset entry gets the pattern length.
SkipOffsetsIgnoringWildcards(bytes, mask) ==
    LET n == Len(bytes)
        end == n - 1
        l == SkipLoop(bytes, mask, end, IF n = 0 THEN 0 ELSE end)
    IN [b \in 0..255 |-> IF l.skip[b] = 0 THEN n ELSE l.skip[b]]

\* Faulty variant of SkipOffsets: an entry the loop left unset gets one more
\* than the pattern length.
SkipOffsetsPastEnd(bytes, mask) ==
    LET n == Len(bytes)
        end == n - 1
        l == SkipLoop(bytes, mask, end, IF n = 0 THEN 0 ELSE end)
        unknown == IF l.unknown = 0 THEN n + 1 ELSE l.unknown
    IN [b \in 0..255 |->
          IF unknown < l.skip[b] \/ l.skip[b] = 0 THEN unknown ELSE l.skip[b]]

\* skip_offsets as Signature::new leaves it. With no bytes, end = 0 - 1 wraps
\* (when it does not panic) and take(end) takes everything there is: nothing.
SkipOffsets(bytes, mask) ==
    LET n == Len(bytes)
        end == n - 1
        l == SkipLoop(bytes, mask, end, IF n = 0 THEN 0 ELSE end)
        unknown == IF l.unknown = 0 THEN n ELSE l.unknown
    IN [b \in 0..255 |->
          IF unknown < l.skip[b] \/ l.skip[b] = 0 THEN unknown ELSE l.skip[b]]

\* Signature::new. bytes.len() - 1 overflows for a signature without bytes:
\* a panic with overflow checks, a wrap without.
SignatureNew(s, checks) ==
    LET n == Nibbles(s)
        bytes == PairBytes(n)
        mask == PairMask(n)
    IN IF bytes = <<>> /\ checks
       THEN [state |-> "panic"]
       ELSE [state |-> "ok", bytes |-> bytes, mask |-> mask,
             skip_offsets |-> SkipOffsets(bytes, mask)]

\* The closure of all() over rem.iter().zip(&self.bytes).zip(&self.mask):
\* zip stops at the shorter side.
WindowMatches(s, b, current) ==
    \A j \in 1..Min(Len(b) - current, Len(s.bytes)) :
        b[current + j] = s.bytes[j] \/ s.mask[j]

\* The while loop of Signature::scan from position current (0-based); limit is
\* buf.len() - self.bytes.len(), NoLimit when that subtraction wrapped.
NoLimit == -1

RECURSIVE ScanLoop(_, _, _, _)
ScanLoop(s, b, current, limit) ==
    IF limit # NoLimit /\ current > limit THEN ScanNone
    ELSE IF current > Len(b) THEN ScanPanic             \* &buf[current..]
    ELSE IF WindowMatches(s, b, current) THEN current
    ELSE LET end == Len(s.bytes) - 1
         IN IF current + end + 1 > Len(b) THEN ScanPanic \* rem[end]
            ELSE ScanLoop(s, b, current + s.skip_offsets[b[current + end + 1]], limit)

\* Signature::scan. Both subtractions are on usize.
SignatureScan(s, b, checks) ==
    IF checks /\ (Len(s.bytes) = 0 \/ Len(b) < Len(s.bytes)) THEN ScanPanic
    ELSE ScanLoop(s, b, 0, IF Len(b) < Len(s.bytes) THEN NoLimit
                           ELSE Len(b) - Len(s.bytes))

----------------------------------------------------------------------------
(* SpecSig: Signature::new, then Signature::scan *)

SigAlphabet == {"0", "1", "?"}
BufBytes == {0, 17}

SeqsUpTo(S, n) == UNION {[1..k -> S] : k \in 0..n}

SigNew ==
    /\ sig = NoSig
    /\ sig' = SignatureNew(sig_str, overflow_checks)
    /\ UNCHANGED <<sig_str, buf, overflow_checks, scan_res, proc_vars, fs_vars, slept,
                   rt_vars>>

SigScan ==
    /\ sig.state = "ok"
    /\ scan_res = ScanNotRun
    /\ scan_res' = SignatureScan(sig, buf, overflow_checks)
    /\ UNCHANGED <<sig_str, buf, overflow_checks, sig, proc_vars, fs_vars, slept, rt_vars>>

----------------------------------------------------------------------------
(* Process::scan_signature: process.rs *)

MaxPages == 2

None == [some |-> FALSE]
Some(x) == [some |-> TRUE, v |-> x]

NoScan == [ok |-> FALSE, err |-> "NotRun"]

\* Process.modules before Process::with_pid has run.
Unopened == [opened |-> FALSE, map |-> <<>>]

NotAsked == [asked |-> FALSE]
NoFsCall == [fn |-> "none", fd |-> 0, errno |-> "ESUCCESS"]
NeverSlept == 0

\* The start address of the k-th mapped region: get_process_maps lists the
\* regions in address order.
PageSize == 16
PageStart(k) == PageSize * k

\* A mapped region: whether it is readable (MapRange::is_read), whether
\* reading it succeeds (read_buf), and the bytes it holds.
Region(is_read, read_ok, bytes) == [is_read |-> is_read, read_ok |-> read_ok, bytes |-> bytes]

Regions == {Region(FALSE, TRUE, <<17, 17>>), Region(TRUE, FALSE, <<17, 17>>),
            Region(TRUE, TRUE, <<0, 17>>), Region(TRUE, TRUE, <<0, 0>>)}

ScanSigStrings == {<<"1", "1">>, <<"0", "0">>}

\* Signature::new(signature) for each of these strings, with and without
\* overflow checks.
CompiledSignature ==
    [str \in ScanSigStrings |-> [checks \in BOOLEAN |-> SignatureNew(str, checks)]]

\* The loop of Process::scan_signature from the k-th region on.
RECURSIVE ScanPages(_, _, _, _)
ScanPages(regions, k, signature, checks) ==
    IF k > Len(regions) THEN [ok |-> TRUE, addr |-> None]
    ELSE LET page == regions[k]
         IN IF ~page.is_read THEN ScanPages(regions, k + 1, signature, checks)
            ELSE IF ~page.read_ok THEN [ok |-> FALSE, err |-> "ReadMemory"]
            ELSE LET index == SignatureScan(signature, page.bytes, checks)
                 IN IF index = ScanPanic THEN [ok |-> FALSE, err |-> "Panic"]
                    ELSE IF index # ScanNone
                    THEN [ok |-> TRUE, addr |-> Some(PageStart(k) + index)]
                    ELSE ScanPages(regions, k + 1, signature, checks)

\* Process::scan_signature: [ok, addr] or [not ok, err]. memory_pages fails
\* when the maps of the pid cannot be listed (the process is gone).
proc_scan_signature(alive, regions, signature_str, checks) ==
    LET signature == CompiledSignature[signature_str][checks]
    IN IF signature.state = "panic" THEN [ok |-> FALSE, err |-> "Panic"]
       ELSE IF ~alive THEN [ok |-> FALSE, err |-> "ProcessDoesntExist"]
       ELSE ScanPages(regions, 1, signature, checks)

ProcScanSignature ==
    /\ scan_addr = NoScan
    /\ scan_addr' = proc_scan_signature(process \in procs, pages, sig_str, overflow_checks)
    /\ UNCHANGED <<pages, maps, modules, exe_path, sig_vars, fs_vars, slept, rt_vars>>

----------------------------------------------------------------------------
(* Process::with_pid, Process::module_address: process.rs *)

MaxMaps == 4

\* The file a map range is backed by, if any.
MapFilenames == {None, Some("game.exe"), Some("libc.so")}

\* HashMap::insert: a key that is present gets the new value.
Insert(map, key, value) ==
    [k \in DOMAIN map \cup {key} |-> IF k = key THEN value ELSE map[k]]

\* collect() into the HashMap, from the k-th range on: the ranges with a
\* filename are inserted in the order get_process_maps lists them, the k-th
\* range starting at PageStart(k).
RECURSIVE CollectModules(_, _, _)
CollectModules(ranges, k, map) ==
    IF k > Len(ranges) THEN map
    ELSE CollectModules(ranges, k + 1,
                        IF ranges[k].some THEN Insert(map, ranges[k].v, PageStart(k))
                        ELSE map)

\* Process::with_pid: the modules of the Process it returns.
with_pid(ranges) == [opened |-> TRUE, map |-> CollectModules(ranges, 1, <<>>)]

\* Process::module_address
module_address(mods, module) ==
    IF module \in DOMAIN mods.map THEN [ok |-> TRUE, v |-> mods.map[module]]
    ELSE [ok |-> FALSE, err |-> "ModuleDoesntExist"]

WithPid ==
    /\ modules = Unopened
    /\ modules' = with_pid(maps)
    /\ UNCHANGED <<pages, scan_addr, maps, exe_path, sig_vars, fs_vars, slept, rt_vars>>

\* The pid Process::path looks up in the process list.
LookedUpPid == 0

\* The executable of a process, as sysinfo reports it.
ExeOf(pid) == [exe_of |-> pid]

\* The process list of a System made by System::new() after
\* refresh_process(pid): the process pid, when it runs, and, if new() loads
\* the list by itself, every other process that runs.
RefreshedList(pid, running, new_loads_all) ==
    IF new_loads_all THEN running ELSE running \cap {pid}

\* Process::path: get_process_list().get(&0).map(|proc| proc.exe().to_path_buf())
process_path(pid, listed) ==
    IF LookedUpPid \in listed THEN Some(ExeOf(LookedUpPid)) ELSE None

----------------------------------------------------------------------------
(* Runtime: runtime.rs *)

MaxPaths == 2
MaxPid == 1
MaxOffsets == 2
MaxTicksPerSec == 120
MaxListed == 7

NoProcess == 0

\* Duration::from_secs(1) / 60: the division of a Duration truncates.
NanosPerSec == 1000000000
InitialTickRate == NanosPerSec \div 60
Pids == 1..MaxPid

\* The process list of the machine: the name and start time of each pid. Two
\* processes of one name may have started in the same second.
ProcNameOf(pid) == IF pid % 2 = 1 THEN "game.exe" ELSE "other.exe"
StartTimeOf(pid) == ((pid \div 2) % 2) + 1

\* f64 values the guest's game_time may return.
F64(x) == [nan |-> FALSE, v |-> x]
NaN == [nan |-> TRUE, v |-> 0]
is_nan(x) == x.nan

AllExports == {"_start", "configure", "update", "should_start", "should_split",
               "should_reset", "is_loading", "game_time", "disconnected"}

\* The guests considered: one exporting everything, and each one that lacks
\* exactly one of the exports the runtime looks up (the lookup of
\* `disconnected` is commented out).
ExportSets == {AllExports} \cup {AllExports \ {e} : e \in AllExports \ {"disconnected"}}

PointerKinds == <<"U8", "U16", "U32", "U64", "I8", "I16", "I32", "I64",
                  "F32", "F64", "String">>

\* PointerType::from_u8(pointer_type as u8): the cast keeps the low 8 bits.
PointerTypeFromU32(pointer_type) ==
    LET code == pointer_type % u8Mod
    IN IF code < Len(PointerKinds) THEN Some(PointerKinds[code + 1]) ELSE None

\* Faulty variant of ZeroValue: every path gets a U32 slot.
ZeroValueOfU32(kind) == [kind |-> "U32", v |-> 0]

\* The zero value push_pointer_path creates for a kind.
ZeroValue(kind) == [kind |-> kind, v |-> IF kind = "String" THEN "" ELSE 0]

\* A (ptr, len) string argument of the guest: the bytes it denotes in guest
\* memory are a valid string s, lie outside the memory, or are no UTF-8.
ValidStr(str) == [at |-> "valid", s |-> str]
OutOfBounds == [at |-> "oob", s |-> ""]
BadUtf8 == [at |-> "bad_utf8", s |-> ""]

\* read_string: indexing outside the memory panics, from_utf8(..).unwrap() too.
read_string(arg) == IF arg.at = "valid" THEN Some(arg.s) ELSE None

\* Faulty variant of with_name: the process that started first is taken.
with_name_oldest(name, running) ==
    {p \in running :
        /\ ProcNameOf(p) = name
        /\ \A q \in running : ProcNameOf(q) = name => StartTimeOf(p) <= StartTimeOf(q)}

\* Faulty variant of with_name: the name is not compared.
with_name_any_name(name, running) == running

\* Process::with_name: the pids it may open, those of the given name with the
\* greatest start time; empty when it fails with ProcessDoesntExist.

with_name(name, running) ==
    {p \in running :
        /\ ProcNameOf(p) = name
        /\ \A q \in running : ProcNameOf(q) = name => StartTimeOf(q) <= StartTimeOf(p)}

\* Runtime::update_values: its body is commented out, it reads nothing, leaves
\* every path alone and returns Ok(()).
update_values(paths, connected) == [ok |-> TRUE, paths |-> paths]

\* Faulty variant of running_predicates: should_reset is asked before should_split.
running_predicates_reset_first ==
    <<"is_loading", "game_time", "should_reset", "should_split">>

\* The arm of TimerState::Running in run_script, in call order.
running_predicates == <<"is_loading", "game_time", "should_split", "should_reset">>

\* Faulty variant of run_script_order: `update` is called after the predicates.
run_script_order_update_last(ts) ==
    (CASE ts = "NotRunning" -> <<"should_start">>
       [] ts = "Running" -> running_predicates
       [] ts = "Finished" -> <<"should_reset">>)
    \o <<"update">>

\* Faulty variant of run_script_order: the arms of NotRunning and Finished are
\* exchanged.
run_script_order_arms_swapped(ts) ==
    <<"update">> \o
    (CASE ts = "NotRunning" -> <<"should_reset">>
       [] ts = "Running" -> running_predicates
       [] ts = "Finished" -> <<"should_start">>)

\* Faulty variant of run_script_order: is_loading is asked in every timer
\* state.
run_script_order_loading_always(ts) ==
    <<"update", "is_loading">> \o
    (CASE ts = "NotRunning" -> <<"should_start">>
       [] ts = "Running" -> Tail(running_predicates)
       [] ts = "Finished" -> <<"should_reset">>)

\* The entry points run_script may call for a timer state, in call order.
run_script_order(ts) ==
    <<"update">> \o
    (CASE ts = "NotRunning" -> <<"should_start">>
       [] ts = "Running" -> running_predicates
       [] ts = "Finished" -> <<"should_reset">>)

\* instance.func(name) is Ok only for an exported function: the first entry
\* point after position k of the order that the guest exports, 0 when none.
next_entry(order, k, ex) ==
    IF \E i \in (k + 1)..Len(order) : order[i] \in ex
    THEN CHOOSE i \in (k + 1)..Len(order) :
            order[i] \in ex /\ \A j \in (k + 1)..(i - 1) : order[j] \notin ex
    ELSE 0

TickPcs == {"update", "should_start", "should_split", "should_reset",
            "is_loading", "game_time"}
NewPcs == {"_start", "configure"}
GuestPcs == TickPcs \cup NewPcs

ShouldPredicates == {"should_start", "should_split", "should_reset"}
NoAnswers == [e \in ShouldPredicates |-> 0]

\* What the guest's should_* predicates may answer in a tick; a predicate the
\* timer state does not consult has no answer to give.
Answers(ts) ==
    {a \in [ShouldPredicates -> {0, 1}] :
        \A e \in ShouldPredicates : ~InSeq(run_script_order(ts), e) => a[e] = 0}

\* The values target memory may hold where the registered paths point.
NoError == ""

LeafVals == {7, 9}
NoRead == 0

\* step() returns res to the embedder; its locals are gone.
tick_done(res) ==
    /\ pc' = "ready"
    /\ result' = res
    /\ just_connected' = FALSE

\* run_script from position k of its order on: call the next exported entry
\* point, or fall through to Ok(None).
run_script_from(k, connected, answers, trace) ==
    LET order == run_script_order(timer_state)
        i == next_entry(order, k, exports)
    IN IF i = 0
       THEN /\ tick_done("None")
            /\ guest_ret' = answers
            /\ calls' = trace
       ELSE /\ pc' = order[i]
            /\ result' = "Pending"
            /\ just_connected' = connected
            /\ guest_ret' = answers
            /\ calls' = trace \o <<order[i]>>

\* A failed call of the entry point at pc, with the error it failed with. In
\* run_script every call is func.call().unwrap(): step() panics. In
\* Runtime::new the error is returned and no Runtime is built. Either way the
\* runtime is gone and the model stops.
call_failed(err) ==
    /\ pc' = IF pc \in TickPcs THEN "panicked" ELSE "failed"
    /\ result' = IF pc \in TickPcs THEN "Panic" ELSE result
    /\ error' = err
    /\ host_ret' = None
    /\ guest_ret' = NoAnswers
    /\ leaf_at_tick' = NoRead
    /\ UNCHANGED <<exports, process_name, pointer_paths, process, timer_state,
                   is_loading_val, game_time_val, just_connected, procs, calls,
                   pushes, tick_rate, sig_vars, proc_vars, fs_vars, slept>>

\* Runtime::step. The guest's answers for this tick and what the target holds
\* are fixed when the tick begins.
Step ==
    /\ pc = "ready"
    /\ host_ret' = None
    /\ IF process = NoProcess /\ with_name(process_name, procs) = {}
       THEN \* Err(_) => return Ok(None)
            /\ tick_done("None")
            /\ calls' = <<>>
            /\ guest_ret' = NoAnswers
            /\ UNCHANGED <<process, pointer_paths, leaf_at_tick>>
       ELSE \E p \in (IF process = NoProcess THEN with_name(process_name, procs)
                      ELSE {process}) :
            LET connected == (process = NoProcess)
                upd == update_values(pointer_paths, connected)
            IN /\ leaf_at_tick' \in (IF p \in procs THEN LeafVals ELSE {NoRead})
               /\ IF ~upd.ok
                  THEN \* Unhooked
                       /\ process' = NoProcess
                       /\ tick_done("None")
                       /\ calls' = <<"update_values">>
                       /\ guest_ret' = NoAnswers
                       /\ UNCHANGED pointer_paths
                  ELSE /\ process' = p
                       /\ pointer_paths' = upd.paths
                       /\ \E answers \in Answers(timer_state) :
                             run_script_from(0, connected, answers, <<"update_values">>)
    /\ UNCHANGED <<exports, process_name, timer_state, is_loading_val, game_time_val,
                   procs, error, pushes, tick_rate, sig_vars, proc_vars, fs_vars, slept>>

\* Runtime::set_state, called by the embedder between ticks.
SetState ==
    /\ pc = "ready"
    /\ \E ts \in {"NotRunning", "Running", "Finished"} :
          /\ ts # timer_state
          /\ timer_state' = ts
    /\ UNCHANGED <<pc, exports, process_name, pointer_paths, process, is_loading_val,
                   game_time_val, just_connected, procs, leaf_at_tick, guest_ret,
                   calls, result, host_ret, error, pushes, tick_rate, sig_vars, proc_vars, fs_vars, slept>>

\* What the guest's is_loading (i32) and game_time (f64) may return.
IsLoadingRets == {0, 1, 2}
GameTimeRets == {NaN, F64(1)}

\* self.is_loading_val = Some(ret_val != 0)
is_loading_of(ret_val) == Some(ret_val # 0)

\* Faulty variant of game_time_of: NaN is kept as a game time.
game_time_of_keeps_nan(ret_val) == Some(ret_val)

\* self.game_time_val = if ret_val.is_nan() { None } else { Some(ret_val) }
game_time_of(ret_val) == IF is_nan(ret_val) THEN None ELSE Some(ret_val)

\* What run_script leaves alone after an entry point returned.
guest_return_frame ==
    /\ host_ret' = None
    /\ UNCHANGED <<exports, process_name, pointer_paths, process, timer_state,
                   procs, leaf_at_tick, error, pushes, tick_rate, sig_vars, proc_vars, fs_vars, slept>>

\* run_script after is_loading returned ret_val.
IsLoadingReturn(ret_val) ==
    /\ pc = "is_loading"
    /\ is_loading_val' = is_loading_of(ret_val)
    /\ run_script_from(IndexOf(run_script_order(timer_state), pc), just_connected,
                       guest_ret, calls)
    /\ UNCHANGED game_time_val
    /\ guest_return_frame

\* run_script after game_time returned ret_val.
GameTimeReturn(ret_val) ==
    /\ pc = "game_time"
    /\ game_time_val' = game_time_of(ret_val)
    /\ run_script_from(IndexOf(run_script_order(timer_state), pc), just_connected,
                       guest_ret, calls)
    /\ UNCHANGED is_loading_val
    /\ guest_return_frame

\* run_script after the entry point at pc returned: the code that follows
\* func.call().unwrap() at each call site.
GuestReturn ==
    /\ pc \in TickPcs
    /\ LET order == run_script_order(timer_state)
           k == IndexOf(order, pc)
           continue == run_script_from(k, just_connected, guest_ret, calls)
       IN \/ /\ pc = "update"
             /\ continue
             /\ UNCHANGED <<is_loading_val, game_time_val>>
             /\ guest_return_frame
          \/ /\ pc \in ShouldPredicates
             /\ IF guest_ret[pc] # 0
                THEN /\ tick_done(CASE pc = "should_start" -> "Start"
                                   [] pc = "should_split" -> "Split"
                                   [] pc = "should_reset" -> "Reset")
                     /\ UNCHANGED <<calls, guest_ret>>
                ELSE continue
             /\ UNCHANGED <<is_loading_val, game_time_val>>
             /\ guest_return_frame
          \/ \E ret_val \in IsLoadingRets : IsLoadingReturn(ret_val)
          \/ \E ret_val \in GameTimeRets : GameTimeReturn(ret_val)

\* Faulty variant of Sleep: the rate is the one of construction.
Sleep_initial_rate ==
    /\ pc = "ready"
    /\ slept' = InitialTickRate
    /\ UNCHANGED <<rt_vars, sig_vars, proc_vars, fs_vars>>

\* Runtime::sleep, called by the embedder between ticks:
\* thread::sleep(self.environment.tick_rate).
Sleep ==
    /\ pc = "ready"
    /\ slept' = tick_rate
    /\ UNCHANGED <<rt_vars, sig_vars, proc_vars, fs_vars>>

\* The guest traps by itself while an entry point runs.
GuestTrap ==
    /\ pc \in GuestPcs
    /\ call_failed("GuestTrap")

\* Faulty variant of NewReturn: a guest without `configure` is constructed all
\* the same.
NewReturn_configure_optional ==
    /\ pc \in NewPcs
    /\ IF pc = "_start" /\ "configure" \in exports
       THEN /\ pc' = "configure"
            /\ calls' = calls \o <<"configure">>
       ELSE /\ pc' = "ready"
            /\ UNCHANGED calls
    /\ host_ret' = None
    /\ UNCHANGED <<exports, process_name, pointer_paths, process, timer_state,
                   is_loading_val, game_time_val, just_connected, procs, leaf_at_tick,
                   guest_ret, result, error, pushes, tick_rate, sig_vars, proc_vars, fs_vars, slept>>

\* Runtime::new after the guest's _start or configure returned.
NewReturn ==
    /\ pc \in NewPcs
    /\ IF pc = "_start"
       THEN /\ pc' = IF "configure" \in exports THEN "configure" ELSE "failed"
            /\ calls' = IF "configure" \in exports THEN calls \o <<"configure">> ELSE calls
       ELSE /\ pc' = "ready"
            /\ UNCHANGED calls
    /\ host_ret' = None
    /\ UNCHANGED <<exports, process_name, pointer_paths, process, timer_state,
                   is_loading_val, game_time_val, just_connected, procs, leaf_at_tick,
                   guest_ret, result, error, pushes, tick_rate, sig_vars, proc_vars, fs_vars, slept>>

----------------------------------------------------------------------------
(* Host functions of runtime.rs, called by the guest while an entry point runs *)

ModuleArgs == {ValidStr("game.exe"), BadUtf8}
PointerTypeArgs == {2, 5, 11, 258}
ProcessNameArgs == {ValidStr("game.exe"), OutOfBounds, BadUtf8}
GetKinds == {"U32", "I16"}
TickRateArgs == 1..MaxTicksPerSec
SignatureArgs == {ValidStr(<<"1", "1">>)}
\* What the target has mapped when the guest scans it: nothing, or one region.
TargetMaps == SeqsUpTo(Regions, 1)
OffsetArgs == {8, -4}
CurrentArgs == {0, 1, -1}

\* What a host call that returns to the guest leaves alone, besides the
\* fields of the Environment it is given.
host_frame ==
    UNCHANGED <<pc, result, exports, process, timer_state, is_loading_val,
                game_time_val, just_connected, procs, leaf_at_tick, guest_ret,
                calls, error, sig_vars, proc_vars, fs_vars, slept>>

\* Faulty variant of push_path: the new path is put in front.
push_path_front(paths, path) == <<path>> \o paths

\* env.pointer_paths.push(..)
push_path(paths, path) == Append(paths, path)

\* What the unwrap() in read_string, or the indexing in read_bytes, panics with.
read_string_panic(arg) ==
    IF arg.at = "oob" THEN "IndexOutOfBounds" ELSE "FromUtf8Error"

\* Faulty variant of push_pointer_path: the module name is dropped.
push_pointer_path_unnamed(paths, arg, pointer_type) ==
    LET ty == PointerTypeFromU32(pointer_type)
        module_name == read_string(arg)
    IN IF ~ty.some THEN [ok |-> FALSE, err |-> "InvalidPointerType"]
       ELSE IF ~module_name.some THEN [ok |-> FALSE, err |-> read_string_panic(arg)]
       ELSE [ok |-> TRUE,
             ret |-> Len(paths),
             paths |-> push_path(paths, [module_name |-> "",
                                         offsets |-> <<>>,
                                         old |-> ZeroValue(ty.v),
                                         current |-> ZeroValue(ty.v)])]

\* push_pointer_path: [ok, paths, ret]; not ok when an unwrap() panics.
push_pointer_path(paths, arg, pointer_type) ==
    LET ty == PointerTypeFromU32(pointer_type)
        module_name == read_string(arg)
    IN IF ~ty.some THEN [ok |-> FALSE, err |-> "InvalidPointerType"]
       ELSE IF ~module_name.some THEN [ok |-> FALSE, err |-> read_string_panic(arg)]
       ELSE [ok |-> TRUE,
             ret |-> Len(paths),
             paths |-> push_path(paths, [module_name |-> module_name.v,
                                         offsets |-> <<>>,
                                         old |-> ZeroValue(ty.v),
                                         current |-> ZeroValue(ty.v)])]

\* Faulty variant of get_val: the current argument selects the other slot.
get_val_slots_swapped(paths, pointer_path_id, current, kind) ==
    IF pointer_path_id >= Len(paths) THEN [ok |-> FALSE, err |-> "InvalidPointerPathId"]
    ELSE LET pointer_path == paths[pointer_path_id + 1]
             slot == IF current # 0 THEN "old" ELSE "current"
             value == pointer_path[slot]
         IN IF value.kind = kind THEN [ok |-> TRUE, ret |-> value.v, slot |-> slot]
            ELSE [ok |-> FALSE, err |-> "TypeMismatch"]

\* get_val with the convert closure of get_<kind>: [ok, ret, slot], slot being
\* the field of the path that was read; not ok when get_val's or get_<kind>'s
\* unwrap() panics. The id is 0-based.
get_val(paths, pointer_path_id, current, kind) ==
    IF pointer_path_id >= Len(paths) THEN [ok |-> FALSE, err |-> "InvalidPointerPathId"]
    ELSE LET pointer_path == paths[pointer_path_id + 1]
             slot == IF current # 0 THEN "current" ELSE "old"
             value == pointer_path[slot]
         IN IF value.kind = kind THEN [ok |-> TRUE, ret |-> value.v, slot |-> slot]
            ELSE [ok |-> FALSE, err |-> "TypeMismatch"]

\* The guest calls push_pointer_path(arg, pointer_type).
PushPointerPathCall(arg, pointer_type) ==
    /\ pc \in GuestPcs
    /\ LET r == push_pointer_path(pointer_paths, arg, pointer_type)
       IN IF r.ok
          THEN /\ Len(pointer_paths) < MaxPaths
               /\ pointer_paths' = r.paths
               /\ host_ret' = Some([fn |-> "push_pointer_path", ret |-> r.ret])
               /\ pushes' = pushes + 1
               /\ UNCHANGED <<process_name, tick_rate>>
               /\ host_frame
          ELSE call_failed(r.err)

HostPushPointerPath ==
    \E arg \in ModuleArgs, pointer_type \in PointerTypeArgs :
        PushPointerPathCall(arg, pointer_type)

\* The module names the guest of SpecConfigure gives: a module, the empty
\* string, and bytes that are no string.
ConfigureModuleArgs == ModuleArgs \cup {ValidStr("")}

HostPushPointerPathAny ==
    \E arg \in ConfigureModuleArgs, pointer_type \in PointerTypeArgs :
        PushPointerPathCall(arg, pointer_type)

\* The guest calls get_<kind>(id, current).
GetValCall(kind, id, current) ==
    /\ pc \in GuestPcs
    /\ LET r == get_val(pointer_paths, id, current, kind)
       IN IF r.ok
          THEN /\ host_ret' = Some([fn |-> "get_val", ret |-> r.ret, slot |-> r.slot])
               /\ UNCHANGED <<process_name, pointer_paths, pushes, tick_rate>>
               /\ host_frame
          ELSE call_failed(r.err)

HostGetVal ==
    \E kind \in GetKinds, id \in 0..MaxPaths, current \in CurrentArgs :
        GetValCall(kind, id, current)

\* The guest calls set_process_name(arg): env.process_name = read_string(..)
SetProcessNameCall(arg) ==
    /\ pc \in GuestPcs
    /\ LET name == read_string(arg)
       IN IF name.some
          THEN /\ process_name' = name.v
               /\ UNCHANGED <<pointer_paths, host_ret, pushes, tick_rate>>
               /\ host_frame
          ELSE call_failed(read_string_panic(arg))

HostSetProcessName == \E arg \in ProcessNameArgs : SetProcessNameCall(arg)

\* Faulty variant of push_offset: the offset is put in front of the others.
push_offset_front(paths, pointer_path_id, offset) ==
    IF pointer_path_id >= Len(paths) THEN [ok |-> FALSE, err |-> "InvalidPointerPathId"]
    ELSE [ok |-> TRUE,
          paths |-> [paths EXCEPT ![pointer_path_id + 1].offsets = <<offset>> \o @]]

\* push_offset: [ok, paths]; not ok when the unwrap() panics.
push_offset(paths, pointer_path_id, offset) ==
    IF pointer_path_id >= Len(paths) THEN [ok |-> FALSE, err |-> "InvalidPointerPathId"]
    ELSE [ok |-> TRUE,
          paths |-> [paths EXCEPT ![pointer_path_id + 1].offsets = Append(@, offset)]]

\* The guest calls push_offset(id, offset).
PushOffsetCall(id, offset) ==
    /\ pc \in GuestPcs
    /\ LET r == push_offset(pointer_paths, id, offset)
       IN IF r.ok
          THEN /\ Len(pointer_paths[id + 1].offsets) < MaxOffsets
               /\ pointer_paths' = r.paths
               /\ host_ret' = None
               /\ UNCHANGED <<process_name, pushes, tick_rate>>
               /\ host_frame
          ELSE call_failed(r.err)

HostPushOffset == \E id \in 0..MaxPaths, offset \in OffsetArgs : PushOffsetCall(id, offset)

\* The guest calls scan_signature(arg) while the target has the given regions.
ScanSignatureCall(arg, regions) ==
    /\ pc \in GuestPcs
    /\ IF process = NoProcess
       THEN /\ host_ret' = Some([fn |-> "scan_signature", ret |-> 0])
            /\ UNCHANGED <<process_name, pointer_paths, pushes, tick_rate>>
            /\ host_frame
       ELSE LET signature == read_string(arg)
                r == proc_scan_signature(process \in procs, regions, signature.v,
                                         overflow_checks)
            IN IF ~signature.some THEN call_failed(read_string_panic(arg))
               ELSE IF ~r.ok THEN call_failed(r.err)
               ELSE /\ host_ret' = Some([fn |-> "scan_signature",
                                         ret |-> IF r.addr.some THEN r.addr.v ELSE 0])
                    /\ UNCHANGED <<process_name, pointer_paths, pushes, tick_rate>>
                    /\ host_frame

HostScanSignature ==
    \E arg \in SignatureArgs, regions \in TargetMaps : ScanSignatureCall(arg, regions)

\* The guest calls read_into_buf(address, buf, buf_len); buf_arg tells whether
\* buf..buf + buf_len lies inside guest memory, read_ok whether the target
\* has address..address + buf_len mapped. What is copied is what the target
\* holds.
ReadIntoBufCall(buf_arg, read_ok) ==
    /\ pc \in GuestPcs
    /\ IF buf_arg = "oob" THEN call_failed("IndexOutOfBounds")
       ELSE IF process = NoProcess
       THEN /\ host_ret' = Some([fn |-> "read_into_buf", copied |-> None])
            /\ UNCHANGED <<process_name, pointer_paths, pushes, tick_rate>>
            /\ host_frame
       ELSE IF ~(process \in procs /\ read_ok) THEN call_failed("ReadMemory")
       ELSE /\ host_ret' = Some([fn |-> "read_into_buf", copied |-> Some(leaf_at_tick)])
            /\ UNCHANGED <<process_name, pointer_paths, pushes, tick_rate>>
            /\ host_frame

HostReadIntoBuf ==
    \E buf_arg \in {"valid", "oob"}, read_ok \in BOOLEAN : ReadIntoBufCall(buf_arg, read_ok)

\* Faulty variant of set_tick_rate: the quotient is truncated.
set_tick_rate_truncated(ticks_per_sec) == NanosPerSec \div ticks_per_sec

\* set_tick_rate for a whole number of ticks per second:
\* (1_000_000_000.0 / ticks_per_sec).round() as u64; round() takes a half
\* away from zero.
set_tick_rate(ticks_per_sec) ==
    LET quotient == NanosPerSec \div ticks_per_sec
        remainder == NanosPerSec % ticks_per_sec
    IN IF 2 * remainder >= ticks_per_sec THEN quotient + 1 ELSE quotient

\* The guest calls set_tick_rate(ticks_per_sec).
SetTickRateCall(ticks_per_sec) ==
    /\ pc \in GuestPcs
    /\ tick_rate' = set_tick_rate(ticks_per_sec)
    /\ UNCHANGED <<process_name, pointer_paths, pushes, host_ret>>
    /\ host_frame

HostSetTickRate == \E ticks_per_sec \in TickRateArgs : SetTickRateCall(ticks_per_sec)

\* The rates the guest of SpecSleep asks for.
SleepRateArgs == {30, 120}

HostSetTickRateFew == \E ticks_per_sec \in SleepRateArgs : SetTickRateCall(ticks_per_sec)

----------------------------------------------------------------------------
(* The machine around the runtime, observed between ticks *)

ProcessStart ==
    /\ pc = "ready"
    /\ \E p \in Pids \ procs : procs' = procs \cup {p}
    /\ UNCHANGED <<pc, exports, process_name, pointer_paths, process, timer_state,
                   is_loading_val, game_time_val, just_connected, leaf_at_tick,
                   guest_ret, calls, result, host_ret, error, pushes, tick_rate, sig_vars, proc_vars, fs_vars, slept>>

ProcessExit ==
    /\ pc = "ready"
    /\ \E p \in procs : procs' = procs \ {p}
    /\ UNCHANGED <<pc, exports, process_name, pointer_paths, process, timer_state,
                   is_loading_val, game_time_val, just_connected, leaf_at_tick,
                   guest_ret, calls, result, host_ret, error, pushes, tick_rate, sig_vars, proc_vars, fs_vars, slept>>

----------------------------------------------------------------------------
(* The guest's file table, runtime/wasi/fs.rs *)

MaxFiles == 3

\* The first descriptor path_open hands out: 0..2 are the standard streams
\* and 3 is the preopened directory.
FirstFd == 4

\* The descriptors a guest passes: the reserved ones, every slot the table
\* can have, and one beyond.
FdArgs == 0..(FirstFd + MaxFiles)

\* The one file path_open opens, whatever path it is given.
ReadmeFile == Some("README.md")

\* (fd as usize).checked_sub(4).and_then(|i| self.files.get(i)): the slot of
\* fd, as a 1-based index in files, or 0 when there is none.
slot_of(table, fd) ==
    IF fd >= FirstFd /\ fd - FirstFd < Len(table) THEN fd - FirstFd + 1 ELSE 0

\* Faulty variant of free_slot: the last free slot is taken.
free_slot_highest(table) ==
    IF \E i \in 1..Len(table) : table[i] = None
    THEN CHOOSE i \in 1..Len(table) :
            table[i] = None /\ \A j \in (i + 1)..Len(table) : table[j] # None
    ELSE 0

\* files.iter_mut().enumerate().find(|(_, slot)| slot.is_none()): the first
\* free slot, 0 when every slot is taken.
free_slot(table) ==
    IF \E i \in 1..Len(table) : table[i] = None
    THEN CHOOSE i \in 1..Len(table) :
            table[i] = None /\ \A j \in 1..(i - 1) : table[j] # None
    ELSE 0

\* FileSystem::path_open. File::open(..).unwrap() panics when the file is not
\* there; the slot is taken before the descriptor is written to the guest,
\* so a bad fd pointer returns the error of deref with the file left open.
PathOpenCall(file_found, fd_ptr_ok) ==
    /\ pc \in GuestPcs
    /\ IF ~file_found
       THEN call_failed("HostPanic")
       ELSE LET i == free_slot(files)
                fd_val == (IF i # 0 THEN i - 1 ELSE Len(files)) + FirstFd
            IN /\ i = 0 => Len(files) < MaxFiles
               /\ files' = IF i # 0 THEN [files EXCEPT ![i] = ReadmeFile]
                           ELSE Append(files, ReadmeFile)
               /\ fs_ret' = [fn |-> "path_open", fd |-> fd_val,
                             errno |-> IF fd_ptr_ok THEN "ESUCCESS" ELSE "EFAULT"]
               /\ closed_fds' = IF fd_ptr_ok THEN closed_fds \ {fd_val} ELSE closed_fds
               /\ UNCHANGED <<rt_vars, sig_vars, proc_vars, slept>>

FsPathOpen == \E file_found \in BOOLEAN, fd_ptr_ok \in BOOLEAN :
                 PathOpenCall(file_found, fd_ptr_ok)

\* FileSystem::fd_close, reached through wasi::fd_close.
FdCloseCall(fd) ==
    /\ pc \in GuestPcs
    /\ LET i == slot_of(files, fd)
       IN IF i # 0
          THEN /\ files' = [files EXCEPT ![i] = None]
               /\ fs_ret' = [fn |-> "fd_close", fd |-> fd, errno |-> "ESUCCESS"]
               /\ closed_fds' = closed_fds \cup {fd}
          ELSE /\ files' = files
               /\ fs_ret' = [fn |-> "fd_close", fd |-> fd, errno |-> "EBADF"]
               /\ closed_fds' = closed_fds
    /\ UNCHANGED <<rt_vars, sig_vars, proc_vars, slept>>

FsFdClose == \E fd \in FdArgs : FdCloseCall(fd)

\* if let Some(Some(file)) = (fd as usize).checked_sub(4).and_then(|i|
\* self.files.get(i)): fd has a slot and the slot holds a file.
open_file(table, fd) == slot_of(table, fd) # 0 /\ table[slot_of(table, fd)] # None

\* What fd_read, fd_seek and fd_filestat_get leave alone: they change neither
\* the table nor what was closed. (The position in the file is not
\* modelled.)
fs_query(fn, fd, errno) ==
    /\ pc \in GuestPcs
    /\ fs_ret' = [fn |-> fn, fd |-> fd, errno |-> errno]
    /\ UNCHANGED <<files, closed_fds, rt_vars, sig_vars, proc_vars, slept>>

\* What reading the file into the guest's buffers may end with: read_bytes
\* fails with the error of deref for a bad buffer and with EIO for a failed
\* read.
ReadOutcomes == {"ESUCCESS", "EFAULT", "EIO"}

\* FileSystem::fd_read. The iovs and nread pointers are dereferenced before
\* fd is looked at.
FdReadCall(fd, ptrs_ok, outcome) ==
    fs_query("fd_read", fd,
             IF ~ptrs_ok THEN "EFAULT"
             ELSE IF open_file(files, fd) THEN outcome
             ELSE "EBADF")

FsFdRead == \E fd \in FdArgs, ptrs_ok \in BOOLEAN, outcome \in ReadOutcomes :
               FdReadCall(fd, ptrs_ok, outcome)

Whences == {"SET", "CUR", "END", "other"}

\* FileSystem::fd_seek. The newoffset pointer is dereferenced first; whence
\* is looked at only for an open file.
FdSeekCall(fd, ptr_ok, whence, seek_ok) ==
    fs_query("fd_seek", fd,
             IF ~ptr_ok THEN "EFAULT"
             ELSE IF open_file(files, fd)
                  THEN (IF whence = "other" THEN "EINVAL"
                        ELSE IF seek_ok THEN "ESUCCESS" ELSE "EIO")
             ELSE "EBADF")

FsFdSeek == \E fd \in FdArgs, ptr_ok \in BOOLEAN, whence \in Whences, seek_ok \in BOOLEAN :
               FdSeekCall(fd, ptr_ok, whence, seek_ok)

\* FileSystem::fd_filestat_get. The buf pointer is dereferenced first.
FdFilestatGetCall(fd, ptr_ok, meta_ok) ==
    fs_query("fd_filestat_get", fd,
             IF ~ptr_ok THEN "EFAULT"
             ELSE IF open_file(files, fd)
                  THEN (IF meta_ok THEN "ESUCCESS" ELSE "EIO")
             ELSE "EBADF")

FsFdFilestatGet == \E fd \in FdArgs, ptr_ok \in BOOLEAN, meta_ok \in BOOLEAN :
                      FdFilestatGetCall(fd, ptr_ok, meta_ok)

----------------------------------------------------------------------------
(* Specifications *)

\* Environment::new, and Runtime::new up to its first call into the guest.
InitRuntime ==
    /\ exports \in ExportSets
    /\ pc = (IF "_start" \in exports THEN "_start"
             ELSE IF "configure" \in exports THEN "configure" ELSE "failed")
    /\ calls = (IF pc = "failed" THEN <<>> ELSE <<pc>>)
    /\ process_name = ""
    /\ pointer_paths = <<>>
    /\ process = NoProcess
    /\ timer_state = "NotRunning"
    /\ is_loading_val = None
    /\ game_time_val = None
    /\ just_connected = FALSE
    /\ procs = {}
    /\ leaf_at_tick = NoRead
    /\ guest_ret = NoAnswers
    /\ result = "NoStep"
    /\ host_ret = None
    /\ error = NoError
    /\ pushes = 0
    /\ tick_rate = InitialTickRate

NoSignature ==
    /\ sig_str = <<>>
    /\ buf = <<>>
    /\ overflow_checks = FALSE
    /\ sig = NoSig
    /\ scan_res = ScanNotRun

NoPages ==
    /\ pages = <<>>
    /\ scan_addr = NoScan
    /\ maps = <<>>
    /\ modules = Unopened
    /\ exe_path = NotAsked

\* FileSystem::new, and an embedder that has not slept yet.
NoFiles ==
    /\ files = <<>>
    /\ fs_ret = NoFsCall
    /\ closed_fds = {}
    /\ slept = NeverSlept

Init == InitRuntime /\ NoSignature /\ NoPages /\ NoFiles

Next ==
    \/ NewReturn
    \/ Step
    \/ SetState
    \/ GuestReturn
    \/ GuestTrap
    \/ HostPushPointerPath
    \/ HostGetVal
    \/ HostSetProcessName
    \/ HostScanSignature
    \/ HostReadIntoBuf
    \/ ProcessStart
    \/ ProcessExit

\* The Runtime and its driver. The host functions that only fill the
\* Environment (push_offset, set_tick_rate) are followed in SpecConfigure and
\* SpecRate.
Spec == Init /\ [][Next]_vars

InitSig ==
    /\ exports = AllExports
    /\ InitRuntime
    /\ sig_str \in SeqsUpTo(SigAlphabet, MaxSigChars)
    /\ buf \in SeqsUpTo(BufBytes, MaxBufLen)
    /\ overflow_checks \in BOOLEAN
    /\ sig = NoSig
    /\ scan_res = ScanNotRun
    /\ NoPages
    /\ NoFiles

NextSig == SigNew \/ SigScan

SpecSig == InitSig /\ [][NextSig]_vars

\* Signature::new alone, on strings that also hold characters it drops and
\* hex digits of both cases.
MaxCompileChars == 4

CompileAlphabet == {"1", "a", "A", "?", " ", "-"}

InitCompile ==
    /\ exports = AllExports
    /\ InitRuntime
    /\ sig_str \in SeqsUpTo(CompileAlphabet, MaxCompileChars)
    /\ buf = <<>>
    /\ overflow_checks \in BOOLEAN
    /\ sig = NoSig
    /\ scan_res = ScanNotRun
    /\ NoPages
    /\ NoFiles

NextCompile == SigNew

SpecCompile == InitCompile /\ [][NextCompile]_vars

\* A guest that exports everything registers its pointer paths while
\* Runtime::new runs its _start.
InitConfigure == exports = AllExports /\ InitRuntime /\ NoSignature /\ NoPages /\ NoFiles

NextConfigure == HostPushPointerPathAny \/ HostPushOffset

SpecConfigure == InitConfigure /\ [][NextConfigure]_vars

\* A guest sets the tick rate while Runtime::new runs its _start.
NextRate == HostSetTickRate

SpecRate == InitConfigure /\ [][NextRate]_vars

\* A guest opens, queries and closes files while Runtime::new runs its _start.
NextFs == FsPathOpen \/ FsFdClose \/ FsFdRead \/ FsFdSeek \/ FsFdFilestatGet

SpecFs == InitConfigure /\ [][NextFs]_vars

\* The embedder's loop of step() and sleep() around a guest that names its
\* process and sets the tick rate, in configure or in a tick.
NextSleep ==
    \/ NewReturn
    \/ HostSetProcessName
    \/ HostSetTickRateFew
    \/ ProcessStart
    \/ Step
    \/ GuestReturn
    \/ Sleep

SpecSleep == InitConfigure /\ [][NextSleep]_vars

\* A Runtime whose construction has finished, for a guest that exports
\* everything and made no host call: its process name, the processes that
\* run and the process it has hooked are given.
ConstructedRuntime(name, running, hooked) ==
    /\ exports = AllExports
    /\ pc = "ready"
    /\ calls = <<"_start", "configure">>
    /\ process_name = name
    /\ pointer_paths = <<>>
    /\ process = hooked
    /\ timer_state = "NotRunning"
    /\ is_loading_val = None
    /\ game_time_val = None
    /\ just_connected = FALSE
    /\ procs = running
    /\ leaf_at_tick = NoRead
    /\ guest_ret = NoAnswers
    /\ result = "NoStep"
    /\ host_ret = None
    /\ error = NoError
    /\ pushes = 0
    /\ tick_rate = InitialTickRate

\* Process::with_name, as the first step() of a constructed Runtime calls it,
\* for any process list of up to MaxListed processes.
OpenByName ==
    /\ pc = "ready"
    /\ process = NoProcess
    /\ error = NoError
    /\ IF with_name(process_name, procs) = {}
       THEN error' = "ProcessDoesntExist" /\ UNCHANGED process
       ELSE process' \in with_name(process_name, procs) /\ UNCHANGED error
    /\ UNCHANGED <<pc, exports, process_name, pointer_paths, timer_state,
                   is_loading_val, game_time_val, just_connected, procs, leaf_at_tick,
                   guest_ret, calls, result, host_ret, pushes, tick_rate, sig_vars,
                   proc_vars, fs_vars, slept>>

NameArgs == {"game.exe", "other.exe", "absent.exe"}

InitName ==
    /\ \E name \in NameArgs, running \in SUBSET (1..MaxListed) :
          ConstructedRuntime(name, running, NoProcess)
    /\ NoSignature
    /\ NoPages
    /\ NoFiles

NextName == OpenByName

SpecName == InitName /\ [][NextName]_vars

\* Process::with_pid opening pid 1, whatever its map ranges are.
InitModules ==
    /\ ConstructedRuntime("game.exe", {1}, NoProcess)
    /\ NoSignature
    /\ pages = <<>>
    /\ scan_addr = NoScan
    /\ maps \in SeqsUpTo(MapFilenames, MaxMaps)
    /\ modules = Unopened
    /\ exe_path = NotAsked
    /\ NoFiles

NextModules == WithPid

SpecModules == InitModules /\ [][NextModules]_vars

\* Process::path of the hooked Process, asked by the embedder between ticks.
ProcessPath ==
    /\ pc = "ready"
    /\ process # NoProcess
    /\ exe_path = NotAsked
    /\ \E new_loads_all \in BOOLEAN :
          exe_path' = process_path(process, RefreshedList(process, procs, new_loads_all))
    /\ UNCHANGED <<pages, scan_addr, maps, modules, sig_vars, fs_vars, slept, rt_vars>>

\* Process::path on a Process opened with any pid of the list, running or
\* gone, the machine running any set of processes (pid 0 among them or not).
InitPath ==
    /\ \E running \in SUBSET (0..MaxListed), hooked \in 1..MaxListed :
          ConstructedRuntime("game.exe", running, hooked)
    /\ NoSignature
    /\ NoPages
    /\ NoFiles

NextPath == ProcessPath

SpecPath == InitPath /\ [][NextPath]_vars

\* Process::scan_signature on a hooked target that still runs or has exited.
InitPages ==
    /\ \E running \in SUBSET {1} : ConstructedRuntime("game.exe", running, 1)
    /\ sig_str \in ScanSigStrings
    /\ buf = <<>>
    /\ overflow_checks = FALSE
    /\ sig = NoSig
    /\ scan_res = ScanNotRun
    /\ pages \in SeqsUpTo(Regions, MaxPages)
    /\ scan_addr = NoScan
    /\ maps = <<>>
    /\ modules = Unopened
    /\ exe_path = NotAsked
    /\ NoFiles

NextPages == ProcScanSignature

SpecPages == InitPages /\ [][NextPages]_vars

----------------------------------------------------------------------------
(* Claims *)

\* The pattern of s matches b at the 0-based index i.
MatchesAt(s, b, i) ==
    \A j \in 1..Len(s.bytes) : s.mask[j] \/ s.bytes[j] = b[i + j]

MatchIndexes(s, b) == {i \in 0..(Len(b) - Len(s.bytes)) : MatchesAt(s, b, i)}

\* C1: for a compiled signature with at least one byte and a buffer at least
\* as long, scan returns Some(i) for the smallest index i at which every
\* pattern byte is masked or equals the buffer byte, and None when there is
\* no such index.
C1_ScanFindsFirstMatch ==
    (scan_res # ScanNotRun /\ Len(sig.bytes) >= 1 /\ Len(buf) >= Len(sig.bytes)) =>
        /\ MatchIndexes(sig, buf) = {} => scan_res = ScanNone
        /\ MatchIndexes(sig, buf) # {} =>
              /\ scan_res \in MatchIndexes(sig, buf)
              /\ \A i \in MatchIndexes(sig, buf) : scan_res <= i

\* A scan of a three-byte pattern with a wildcard that matches only after
\* the window moved.
C1_Witness ==
    /\ scan_res = 1
    /\ Len(sig.bytes) = 3
    /\ \E j \in 1..3 : sig.mask[j]
    /\ \E j \in 1..3 : ~sig.mask[j]


\* A tick in which the guest ran (or could have run) has just returned to the
\* embedder, or is still running.
InTick == Len(calls) >= 1 /\ calls[1] = "update_values"

\* C2: when step() returns from a hooked tick in which the guest's
\* should_split and should_reset both answer nonzero (which is a Running
\* tick), it returns Split; it returns Reset only when should_reset answered
\* nonzero and should_split did not.
C2_SplitBeforeReset ==
    (pc = "ready" /\ InTick) =>
        /\ ("should_split" \in exports /\ guest_ret["should_split"] # 0) =>
              result = "Split"
        /\ result = "Reset" =>
              /\ "should_reset" \in exports /\ guest_ret["should_reset"] # 0
              /\ ~("should_split" \in exports /\ guest_ret["should_split"] # 0)
        /\ result = "Split" =>
              "should_split" \in exports /\ guest_ret["should_split"] # 0

\* step() has returned Split from a Running tick in which should_reset would
\* have answered nonzero too.
C2_Witness ==
    /\ pc = "ready"
    /\ result = "Split"
    /\ guest_ret["should_split"] = 1
    /\ guest_ret["should_reset"] = 1
    /\ "should_reset" \in exports


\* The order the claim gives for a timer state.
ClaimedOrder(ts) ==
    CASE ts = "NotRunning" -> <<"update", "should_start">>
      [] ts = "Running" ->
            <<"update", "is_loading", "game_time", "should_split", "should_reset">>
      [] ts = "Finished" -> <<"update", "should_reset">>

RECURSIVE Exported(_)
Exported(order) ==
    IF order = <<>> THEN <<>>
    ELSE IF Head(order) \in exports THEN <<Head(order)>> \o Exported(Tail(order))
    ELSE Exported(Tail(order))

\* C3: while a tick runs guest code, what step() has invoked so far is the
\* value update, then the exported entry points of the timer state's order
\* (update first, then the predicates), without gap, up to the one running.
C3_TickOrder ==
    pc \in TickPcs =>
        LET expected == Exported(ClaimedOrder(timer_state))
        IN /\ InSeq(expected, pc)
           /\ calls = <<"update_values">> \o SubSeq(expected, 1, IndexOf(expected, pc))

\* A Running tick of a guest exporting everything has reached should_reset.
C3_Witness ==
    /\ pc = "should_reset"
    /\ timer_state = "Running"
    /\ calls = <<"update_values", "update", "is_loading", "game_time",
                 "should_split", "should_reset">>

\* C4: in a steady-state tick (the process was hooked by an earlier step and
\* is alive), after the value update every path's current is what the target
\* holds at this tick and its old is what the target held at the previous
\* hooked tick.
C4_OldCurrentRotation ==
    [][(Step /\ process # NoProcess /\ process \in procs /\ leaf_at_tick # NoRead) =>
          \A i \in 1..Len(pointer_paths') :
              /\ pointer_paths'[i].current.v = leaf_at_tick'
              /\ pointer_paths'[i].old.v = leaf_at_tick]_vars

\* C5: in the tick that hooks the process, after the value update every path
\* has current = old, both what the target holds at this tick.
C5_FirstTickSeeding ==
    [][(Step /\ process = NoProcess /\ process' # NoProcess) =>
          \A i \in 1..Len(pointer_paths') :
              /\ pointer_paths'[i].current = pointer_paths'[i].old
              /\ pointer_paths'[i].current.v = leaf_at_tick']_vars

\* C6: a step() entered while hooked to a process that has exited, with a
\* path registered, fails the value update: it calls `disconnected` (when
\* exported) and nothing else of the guest, clears env.process and returns no
\* action.
C6_DisconnectOnExit ==
    [][(Step /\ process # NoProcess /\ process \notin procs /\ Len(pointer_paths) >= 1) =>
          /\ process' = NoProcess
          /\ pc' = "ready"
          /\ result' = "None"
          /\ calls' = <<"update_values">> \o
                      (IF "disconnected" \in exports THEN <<"disconnected">> ELSE <<>>)]_vars

ValidationErrors == {"InvalidPointerPathId", "TypeMismatch"}

\* C8: a tick in which a host call of the guest failed the validation of its
\* arguments ends with step() returning no action, and the runtime is ready
\* for the next step().
C8_ValidationFailureGivesNoAction ==
    (error \in ValidationErrors /\ InTick) => (pc = "ready" /\ result = "None")

\* C9: a steady-state tick in which a guest entry point trapped gives the
\* embedder no action; no panic leaves step().
C9_GuestTrapGivesNoAction ==
    (error = "GuestTrap" /\ InTick /\ ~just_connected) =>
        (result = "None" /\ pc # "panicked")

\* C10: the registry holds as many paths as push_pointer_path succeeded, a
\* successful push_pointer_path returned the number of paths pushed before
\* it, and no step of the runtime removes a path or changes the module name
\* or the kind an id denotes.
C10_PathIdsStable ==
    /\ [](/\ Len(pointer_paths) = pushes
          /\ (host_ret.some /\ host_ret.v.fn = "push_pointer_path") =>
                host_ret.v.ret = pushes - 1)
    /\ [][/\ Len(pointer_paths') >= Len(pointer_paths)
          /\ \A i \in 1..Len(pointer_paths) :
                /\ pointer_paths'[i].module_name = pointer_paths[i].module_name
                /\ pointer_paths'[i].current.kind = pointer_paths[i].current.kind
                /\ pointer_paths'[i].old.kind = pointer_paths[i].old.kind]_vars

\* The second successful push_pointer_path has returned id 1, for a path of
\* another kind than path 0.
C10_Witness ==
    /\ pushes = 2
    /\ host_ret = Some([fn |-> "push_pointer_path", ret |-> 1])
    /\ Len(pointer_paths) = 2
    /\ pointer_paths[1].current.kind # pointer_paths[2].current.kind

\* C11: in every state each registered path has current and old of the same
\* kind; no step changes the kind of a registered path; and the path a
\* successful push_pointer_path with a code in 0..10 creates has the kind
\* that code stands for.
C11_KindImmutable ==
    /\ [](\A i \in 1..Len(pointer_paths) :
             pointer_paths[i].current.kind = pointer_paths[i].old.kind)
    /\ [][\A i \in 1..Len(pointer_paths) :
             /\ i <= Len(pointer_paths')
             /\ pointer_paths'[i].current.kind = pointer_paths[i].current.kind
             /\ pointer_paths'[i].old.kind = pointer_paths[i].old.kind]_vars
    /\ [][\A arg \in ModuleArgs, pointer_type \in PointerTypeArgs :
             (/\ PushPointerPathCall(arg, pointer_type)
              /\ pointer_type < Len(PointerKinds)
              /\ Len(pointer_paths') = Len(pointer_paths) + 1) =>
                LET path == pointer_paths'[Len(pointer_paths')]
                IN /\ path.current.kind = PointerKinds[pointer_type + 1]
                   /\ path.old.kind = PointerKinds[pointer_type + 1]]_vars

\* A path declared I16 (code 5) is still I16 in both slots after a hooked
\* tick has run to its end and a second one is running.
C11_Witness ==
    /\ pc = "update"
    /\ ~just_connected
    /\ process # NoProcess
    /\ Len(pointer_paths) >= 1
    /\ pointer_paths[1].current.kind = "I16"
    /\ pointer_paths[1].old.kind = "I16"

\* C12: a push_pointer_path call succeeds only with a pointer-type code in
\* 0..10, and then creates a path of the kind the code stands for; with a
\* code of 11 or more it fails with InvalidPointerType and leaves the
\* registry as it was.
C12_PointerTypeCodes ==
    [][\A arg \in ModuleArgs, pointer_type \in PointerTypeArgs :
          PushPointerPathCall(arg, pointer_type) =>
             IF pointer_type >= Len(PointerKinds)
             THEN /\ error' = "InvalidPointerType"
                  /\ pointer_paths' = pointer_paths
                  /\ host_ret' = None
             ELSE (Len(pointer_paths') = Len(pointer_paths) + 1) =>
                     pointer_paths'[Len(pointer_paths')].current.kind =
                        PointerKinds[pointer_type + 1]]_vars

\* C13: get_<kind>(id, current) succeeds exactly when id is below the number
\* of registered paths and the path was declared with that kind; it then
\* returns the value of the current slot for a nonzero current argument and
\* of the old slot for zero. Otherwise it fails with InvalidPointerPathId
\* (id out of range) or TypeMismatch (another kind). The registry stays as
\* it was in every case.
C13_GetVal ==
    [][\A kind \in GetKinds, id \in 0..MaxPaths, current \in CurrentArgs :
          GetValCall(kind, id, current) =>
             /\ pointer_paths' = pointer_paths
             /\ IF id < Len(pointer_paths) /\ pointer_paths[id + 1].current.kind = kind
                THEN LET slot == IF current # 0 THEN "current" ELSE "old"
                     IN /\ host_ret' = Some([fn |-> "get_val",
                                             ret |-> pointer_paths[id + 1][slot].v,
                                             slot |-> slot])
                        /\ error' = error
                        /\ pc' = pc
                ELSE /\ host_ret' = None
                     /\ error' = IF id >= Len(pointer_paths)
                                 THEN "InvalidPointerPathId" ELSE "TypeMismatch"]_vars

\* During a tick, with two paths of different kinds registered, a get call
\* has returned the old slot of a path.
C13_Witness ==
    /\ pc \in TickPcs
    /\ Len(pointer_paths) = 2
    /\ pointer_paths[1].current.kind # pointer_paths[2].current.kind
    /\ host_ret.some
    /\ host_ret.v.fn = "get_val"
    /\ host_ret.v.slot = "old"

\* C14: push_offset(id, offset) with id below the number of registered paths
\* appends offset at the end of that path's offsets and leaves the number of
\* paths, every other path's offsets and every path's module name, current
\* and old as they were; with id out of range it fails with
\* InvalidPointerPathId and leaves the registry as it was.
C14_PushOffsetFrame ==
    [][\A id \in 0..MaxPaths, offset \in OffsetArgs :
          PushOffsetCall(id, offset) =>
             IF id < Len(pointer_paths)
             THEN /\ Len(pointer_paths') = Len(pointer_paths)
                  /\ \A i \in 1..Len(pointer_paths) :
                        /\ pointer_paths'[i].module_name = pointer_paths[i].module_name
                        /\ pointer_paths'[i].current = pointer_paths[i].current
                        /\ pointer_paths'[i].old = pointer_paths[i].old
                        /\ pointer_paths'[i].offsets =
                              IF i = id + 1
                              THEN pointer_paths[i].offsets \o <<offset>>
                              ELSE pointer_paths[i].offsets
                  /\ UNCHANGED <<process_name, process, tick_rate, error, pc>>
             ELSE /\ error' = "InvalidPointerPathId"
                  /\ pointer_paths' = pointer_paths]_vars

\* The second path has taken the offsets 8 and then -4 while the first path
\* kept its single offset.
C14_Witness ==
    /\ Len(pointer_paths) = 2
    /\ pointer_paths[2].offsets = <<8, -4>>
    /\ pointer_paths[1].offsets = <<-4>>
    /\ error = NoError

\* C15: set_process_name with a range that holds a valid string sets
\* env.process_name to that string; with a range outside guest memory or
\* bytes that are no UTF-8 it fails with InvalidProcessName and
\* env.process_name keeps its value.
C15_SetProcessName ==
    [][\A arg \in ProcessNameArgs :
          SetProcessNameCall(arg) =>
             IF arg.at = "valid"
             THEN process_name' = arg.s /\ error' = error /\ pc' = pc
             ELSE error' = "InvalidProcessName" /\ process_name' = process_name]_vars

\* The regions the claimed scan looks into: readable, and read without error,
\* and holding a match of the pattern.
RegionsWithMatch(regions, s) ==
    {k \in 1..Len(regions) :
        /\ regions[k].is_read
        /\ regions[k].read_ok
        /\ MatchIndexes(s, regions[k].bytes) # {}}

FirstOf(S) == CHOOSE x \in S : \A y \in S : x <= y

\* C17: on a running target Process::scan_signature returns the start of the
\* first readable region in which the pattern is found plus the offset of
\* the match there, skipping every region whose read fails, and "not found"
\* when no region it could read holds the pattern.
C17_ScanSkipsFailedRegions ==
    (scan_addr # NoScan /\ process \in procs) =>
        LET s == SignatureNew(sig_str, overflow_checks)
            hits == RegionsWithMatch(pages, s)
        IN scan_addr =
              [ok |-> TRUE,
               addr |-> IF hits = {} THEN None
                        ELSE Some(PageStart(FirstOf(hits)) +
                                  FirstOf(MatchIndexes(s, pages[FirstOf(hits)].bytes)))]

\* C16: a scan_signature host call with a valid signature string always
\* returns to the guest, whatever the target does: 0 when no process is
\* hooked, when the target cannot be listed or read, or when the pattern is
\* not found; a nonzero address only when a region of the target that was
\* read holds the pattern.
C16_ScanSignatureNeverFails ==
    [][\A arg \in SignatureArgs, regions \in TargetMaps :
          ScanSignatureCall(arg, regions) =>
             /\ pc' = pc
             /\ error' = error
             /\ host_ret'.some
             /\ host_ret'.v.fn = "scan_signature"
             /\ (process = NoProcess \/ process \notin procs) => host_ret'.v.ret = 0
             /\ host_ret'.v.ret # 0 =>
                   RegionsWithMatch(regions, SignatureNew(arg.s, overflow_checks)) # {}]_vars

\* C18: a read_into_buf call with a buffer inside guest memory copies what
\* the target holds when a process is hooked and the read succeeds; when no
\* process is hooked or the read fails it copies nothing and returns to the
\* guest, whose entry point goes on.
C18_ReadIntoBufSilent ==
    [][\A read_ok \in BOOLEAN :
          ReadIntoBufCall("valid", read_ok) =>
             /\ pc' = pc
             /\ error' = error
             /\ host_ret' = Some([fn |-> "read_into_buf",
                                  copied |-> IF process # NoProcess /\ process \in procs
                                                /\ read_ok
                                             THEN Some(leaf_at_tick) ELSE None])]_vars

C21_ModulesFirstWins ==
    modules.opened =>
        \A name \in {"game.exe", "libc.so"} :
            LET carrying == {k \in 1..Len(maps) : maps[k] = Some(name)}
            IN module_address(modules, name) =
                  IF carrying = {} THEN [ok |-> FALSE, err |-> "ModuleDoesntExist"]
                  ELSE [ok |-> TRUE, v |-> PageStart(FirstOf(carrying))]

\* C22: for a signature string without a complete pair of nibbles,
\* Signature::new returns a Signature and Signature::scan on it returns None
\* ("not found") for every buffer.
C22_EmptySignatureNotFound ==
    PairBytes(Nibbles(sig_str)) = <<>> =>
        /\ sig # NoSig => sig.state = "ok"
        /\ scan_res # ScanNotRun => scan_res = ScanNone

\* C23: Signature::scan of a buffer shorter than the compiled pattern
\* returns None ("not found").
C23_ShortBufferNotFound ==
    (scan_res # ScanNotRun /\ Len(buf) < Len(sig.bytes)) => scan_res = ScanNone

\* What Runtime::new has called of the guest once `configure` is entered.
ConstructionCalls ==
    (IF "_start" \in exports THEN <<"_start">> ELSE <<>>) \o <<"configure">>

\* C24: Runtime::new calls `_start` once when it is exported, then `configure`
\* once, before any step(); no step() calls either of them again; a guest
\* without `configure`, or whose `_start` or `configure` fails, is never
\* constructed.
C24_ConstructionCalls ==
    /\ [](/\ pc = "_start" => ("_start" \in exports /\ calls = <<"_start">>)
          /\ pc = "configure" => calls = ConstructionCalls
          /\ (pc = "ready" /\ result = "NoStep") => calls = ConstructionCalls
          /\ result # "NoStep" =>
                /\ pc \notin NewPcs
                /\ ~InSeq(calls, "_start")
                /\ ~InSeq(calls, "configure")
          /\ "configure" \notin exports => pc \in {"_start", "failed"})
    /\ [][/\ (pc \in NewPcs /\ (GuestTrap \/ error' # error)) => pc' = "failed"
          /\ pc \notin NewPcs => pc' \notin NewPcs
          /\ pc = "failed" => pc' = "failed"]_vars

\* A guest exporting `_start` was constructed and a tick of it has returned.
C24_Witness ==
    /\ pc = "ready"
    /\ "_start" \in exports
    /\ InTick
    /\ Len(calls) >= 2

\* C25: a tick on a hooked, live process resolves every path's address (module
\* base, then the offsets, dereferencing all but the last) and reads the leaf
\* of the declared kind there: after the value update what the target holds at
\* the path's address is held by the path.
C25_LeafReadAtAddress ==
    [][(Step /\ process' # NoProcess /\ process' \in procs /\ leaf_at_tick' # NoRead) =>
          \A i \in 1..Len(pointer_paths') :
              leaf_at_tick' \in {pointer_paths'[i].current.v, pointer_paths'[i].old.v}]_vars

\* The predicates a tick may consult and the actions it may return, as the
\* claim gives them for a timer state.
ClaimedPredicates(ts) ==
    CASE ts = "NotRunning" -> {"should_start"}
      [] ts = "Running" -> ShouldPredicates \ {"should_start"}
      [] ts = "Finished" -> {"should_reset"}

ClaimedActions(ts) ==
    CASE ts = "NotRunning" -> {"Start"}
      [] ts = "Running" -> {"Split", "Reset"}
      [] ts = "Finished" -> {"Reset"}

\* C26: a tick consults only the should_* predicates of the timer state in
\* force when step() was entered (NotRunning: should_start; Finished:
\* should_reset; Running: never should_start) and returns no action but those
\* of that state (Start; Reset; never Start); set_state changes nothing but
\* the timer state, which the next step() then goes by.
C26_StateSelectsPredicates ==
    /\ [](pc \in TickPcs =>
             /\ \A i \in 1..Len(calls) :
                   calls[i] \in ShouldPredicates => calls[i] \in ClaimedPredicates(timer_state)
             /\ result = "Pending")
    /\ [][/\ (pc \in TickPcs /\ pc' = "ready") =>
                /\ timer_state' = timer_state
                /\ result' \in ClaimedActions(timer_state) \cup {"None"}
          /\ (Step /\ pc' \in ShouldPredicates) => pc' \in ClaimedPredicates(timer_state)
          /\ timer_state' # timer_state =>
                /\ pc = "ready"
                /\ UNCHANGED <<pc, calls, result, is_loading_val, game_time_val,
                               pointer_paths, process>>]_vars

\* After set_state(Finished), a tick that consulted should_reset and not
\* should_split has returned Reset.
C26_Witness ==
    /\ pc = "ready"
    /\ timer_state = "Finished"
    /\ result = "Reset"
    /\ "should_split" \in exports
    /\ ~InSeq(calls, "should_split")

\* C27: when a Running tick's game_time returns, Runtime::game_time() is None
\* for NaN and Some(v) for any other v; when its is_loading returns,
\* Runtime::is_loading() is Some(TRUE) for a nonzero value and Some(FALSE)
\* for 0; nothing else in the tick changes either.
C27_LoadingAndGameTime ==
    [][/\ \A ret_val \in GameTimeRets :
             GameTimeReturn(ret_val) =>
                /\ timer_state = "Running"
                /\ game_time_val' = (IF ret_val = NaN THEN None ELSE Some(ret_val))
       /\ \A ret_val \in IsLoadingRets :
             IsLoadingReturn(ret_val) =>
                /\ timer_state = "Running"
                /\ is_loading_val' = (IF ret_val = 0 THEN Some(FALSE) ELSE Some(TRUE))
       /\ (pc \in TickPcs /\ game_time_val' # game_time_val) => pc = "game_time"
       /\ (pc \in TickPcs /\ is_loading_val' # is_loading_val) => pc = "is_loading"]_vars

\* A Running tick has returned after is_loading answered nonzero and game_time
\* answered NaN, a number having been the game time before.
C27_Witness ==
    /\ pc = "ready"
    /\ InTick
    /\ InSeq(calls, "game_time")
    /\ InSeq(calls, "is_loading")
    /\ is_loading_val = Some(TRUE)
    /\ game_time_val = None

\* The descriptors that are open: handed out by path_open and not closed since.
OpenFds == {fd \in FdArgs : slot_of(files, fd) # 0 /\ files[slot_of(files, fd)] # None}

\* C28: fd_close(fd) succeeds exactly when fd is open, and then closes it;
\* for every other fd (below 4, beyond the table, or already closed) it
\* returns EBADF and leaves the table alone.
C28_CloseOnlyOpen ==
    [][\A fd \in FdArgs :
          FdCloseCall(fd) =>
             IF fd \in OpenFds
             THEN /\ fs_ret'.errno = "ESUCCESS"
                  /\ OpenFds' = OpenFds \ {fd}
             ELSE /\ fs_ret'.errno = "EBADF"
                  /\ OpenFds' = OpenFds]_vars

\* C29: sleep() sleeps for the tick rate the environment holds when it is
\* called, so a rate set in configure or in a tick is the one of the next
\* sleep; only set_tick_rate changes the tick rate, which starts at 1/60 s.
C29_SleepUsesTickRate ==
    /\ tick_rate = NanosPerSec \div 60
    /\ [][/\ (Sleep \/ slept' # slept) => (slept' = tick_rate /\ tick_rate' = tick_rate)
          /\ tick_rate' # tick_rate =>
                \E ticks_per_sec \in SleepRateArgs : SetTickRateCall(ticks_per_sec)]_vars

\* The guest has set a rate of its own, a hooked tick has run, and the sleep
\* after it lasted that rate.
C29_Witness ==
    /\ pc = "ready"
    /\ InTick
    /\ slept = tick_rate
    /\ slept = set_tick_rate(120)

\* C30: a push_pointer_path that returns appends one path: its module name is
\* the string given (the empty string too), its offsets are empty, its
\* current and old are equal and, for a pointer type code of the table, the
\* zero value of that kind; the paths registered before keep their module
\* name, offsets, current and old.
C30_NewPathFrame ==
    [][\A arg \in ConfigureModuleArgs, pointer_type \in PointerTypeArgs :
          (PushPointerPathCall(arg, pointer_type) /\ pc' = pc) =>
             LET n == Len(pointer_paths)
                 new == pointer_paths'[n + 1]
             IN /\ Len(pointer_paths') = n + 1
                /\ new.module_name = arg.s
                /\ new.offsets = <<>>
                /\ new.current = new.old
                /\ new.current = ZeroValue(new.current.kind)
                /\ pointer_type < Len(PointerKinds) =>
                      new.current.kind = PointerKinds[pointer_type + 1]
                /\ \A i \in 1..n : pointer_paths'[i] = pointer_paths[i]]_vars

\* A path with the empty module name was registered after a path that has a
\* module name and offsets.
C30_Witness ==
    /\ Len(pointer_paths) = 2
    /\ pointer_paths[1].module_name = "game.exe"
    /\ pointer_paths[1].offsets # <<>>
    /\ pointer_paths[2] = [module_name |-> "", offsets |-> <<>>,
                           old |-> ZeroValue("I16"), current |-> ZeroValue("I16")]
    /\ host_ret = Some([fn |-> "push_pointer_path", ret |-> 1])

\* The nibble characters of the signature string, as values (16 for '?'), and
\* the two that make up byte j of the compiled signature.
SigNibbles == Nibbles(sig_str)
HighNibble(j) == SigNibbles[2 * j - 1]
LowNibble(j) == SigNibbles[2 * j]
Wildcard == 16

\* C31: in a compiled signature mask[j] is true exactly when both nibbles of
\* byte j are '?'; a byte written '?' then a hex digit d is compiled as the
\* unmasked byte 0x0d, and a match found by scan has the buffer byte d at
\* that position.
C31_MaskOnlyFullWildcard ==
    sig.state = "ok" =>
        \A j \in 1..Len(sig.bytes) :
            /\ sig.mask[j] = (HighNibble(j) = Wildcard /\ LowNibble(j) = Wildcard)
            /\ (HighNibble(j) = Wildcard /\ LowNibble(j) # Wildcard) =>
                  /\ ~sig.mask[j]
                  /\ sig.bytes[j] = LowNibble(j)
                  /\ (scan_res >= 0 /\ scan_res + j <= Len(buf)) =>
                        buf[scan_res + j] = LowNibble(j)

\* A signature with a byte written '?0' after another byte was found in a
\* buffer, past its start.
C31_Witness ==
    /\ sig.state = "ok"
    /\ Len(sig.bytes) = 2
    /\ HighNibble(2) = Wildcard
    /\ LowNibble(2) = 0
    /\ scan_res > 0
    /\ buf[scan_res + 2] = 0

\* The characters Signature::new is said to keep, and the others of
\* CompileAlphabet.
HexClass == {"0", "1", "2", "3", "4", "5", "6", "7", "8", "9",
             "a", "b", "c", "d", "e", "f", "A", "B", "C", "D", "E", "F", "?"}
Ignored == CompileAlphabet \ HexClass

\* s with the character c put in after its first p characters.
InsertAt(s, p, c) == SubSeq(s, 1, p) \o <<c>> \o SubSeq(s, p + 1, Len(s))

\* s without its character p.
RemoveAt(s, p) == SubSeq(s, 1, p - 1) \o SubSeq(s, p + 1, Len(s))

\* The same hex digit in the other case; any other character is itself.
SwapCase(c) ==
    IF InSeq(LowerHex, c) THEN UpperHex[IndexOf(LowerHex, c)]
    ELSE IF InSeq(UpperHex, c) THEN LowerHex[IndexOf(UpperHex, c)]
    ELSE c

\* The positions of s that hold a character of the hex class.
ClassPositions(s) == {p \in 1..Len(s) : s[p] \in HexClass}

\* C32: a signature string compiles to the same Signature as the string with
\* one more ignored character at any position, as the string without one of
\* its ignored characters, as the string with one hex digit in the other
\* case, and, when its nibble characters are odd in number, as the string
\* without the last of them.
C32_IgnoredCharacters ==
    sig # NoSig =>
        /\ \A p \in 0..Len(sig_str), c \in Ignored :
              SignatureNew(InsertAt(sig_str, p, c), overflow_checks) = sig
        /\ \A p \in 1..Len(sig_str) :
              /\ sig_str[p] \notin HexClass =>
                    SignatureNew(RemoveAt(sig_str, p), overflow_checks) = sig
              /\ SignatureNew([sig_str EXCEPT ![p] = SwapCase(@)], overflow_checks) = sig
        /\ Cardinality(ClassPositions(sig_str)) % 2 = 1 =>
              LET last == CHOOSE p \in ClassPositions(sig_str) :
                             \A q \in ClassPositions(sig_str) : q <= p
              IN SignatureNew(RemoveAt(sig_str, last), overflow_checks) = sig

\* A signature whose first byte is written with a separator between its two
\* nibbles, an upper-case digit and a trailing unpaired nibble was compiled
\* to that one byte.
C32_Witness ==
    /\ sig_str = <<"A", "-", "1", "a">>
    /\ sig.state = "ok"
    /\ sig.bytes = <<161>>
    /\ sig.mask = <<FALSE>>

\* C33: in a compiled signature of n >= 1 bytes every entry of the skip table
\* is between 1 and n, and a scan of a buffer of at least n bytes ends with
\* an index where the pattern fits or with None.
C33_SkipTableBounds ==
    (sig.state = "ok" /\ Len(sig.bytes) >= 1) =>
        /\ DOMAIN sig.skip_offsets = 0..255
        /\ \A b \in 0..255 :
              sig.skip_offsets[b] >= 1 /\ sig.skip_offsets[b] <= Len(sig.bytes)
        /\ (scan_res # ScanNotRun /\ Len(buf) >= Len(sig.bytes)) =>
              scan_res \in {ScanNone} \cup 0..(Len(buf) - Len(sig.bytes))

\* A scan that had to skip more than once ended without a match: a 1-byte
\* pattern after a wildcard byte, over a buffer of 4 bytes.
C33_Witness ==
    /\ sig.state = "ok"
    /\ sig.mask = <<TRUE, FALSE>>
    /\ \E b \in 0..255 : sig.skip_offsets[b] = 1
    /\ Len(buf) = MaxBufLen
    /\ scan_res = ScanNone

FreeSlots == {i \in 0..(Len(files) - 1) : files[i + 1] = None}

\* C35: path_open takes the free slot of lowest index, extending the table
\* only when no slot is free, and the descriptor it writes to the guest is
\* 4 plus that index: it is at least 4, was not open before the call, and is
\* the one descriptor the call opens.
C35_LowestFreeSlot ==
    [][\A fd_ptr_ok \in BOOLEAN :
          PathOpenCall(TRUE, fd_ptr_ok) =>
             LET index == IF FreeSlots # {}
                          THEN CHOOSE i \in FreeSlots : \A j \in FreeSlots : i <= j
                          ELSE Len(files)
             IN /\ Len(files') = (IF FreeSlots # {} THEN Len(files) ELSE Len(files) + 1)
                /\ OpenFds' = OpenFds \cup {FirstFd + index}
                /\ FirstFd + index \notin OpenFds
                /\ fs_ret'.errno = "ESUCCESS" =>
                      /\ fs_ret'.fd = FirstFd + index
                      /\ fs_ret'.fd >= 4]_vars

\* path_open has returned 4 again, after it was closed, while 5 is open and
\* slot 6 is free too.
C35_Witness ==
    /\ fs_ret = [fn |-> "path_open", fd |-> 4, errno |-> "ESUCCESS"]
    /\ Len(files) = 3
    /\ files[2] # None
    /\ files[3] = None
    /\ closed_fds = {6}

\* C36: fd_read, fd_seek and fd_filestat_get, given pointers into the guest's
\* memory, return EBADF for a descriptor that fd_close closed and path_open
\* has not returned since, for a descriptor below 4 and for one beyond the
\* file table; none of them changes which descriptors are open.
C36_ClosedFdIsBad ==
    [][\A fd \in FdArgs :
          LET bad == \/ fd \in closed_fds
                     \/ fd < FirstFd
                     \/ fd >= FirstFd + Len(files)
              after == /\ bad => fs_ret'.errno = "EBADF"
                       /\ OpenFds' = OpenFds
          IN /\ \A outcome \in ReadOutcomes : FdReadCall(fd, TRUE, outcome) => after
             /\ \A whence \in Whences, seek_ok \in BOOLEAN :
                   FdSeekCall(fd, TRUE, whence, seek_ok) => after
             /\ \A meta_ok \in BOOLEAN : FdFilestatGetCall(fd, TRUE, meta_ok) => after]_vars

\* C37: is_loading_val and game_time_val are None after construction and
\* change only while a tick of a hooked process runs guest code in timer
\* state Running; the entry of step() (idle, failed update or not),
\* set_state and everything outside such a tick leave both as they are.
C37_ValuesKeptOutsideRunning ==
    /\ (is_loading_val = None /\ game_time_val = None)
    /\ [][/\ <<is_loading_val, game_time_val>>' # <<is_loading_val, game_time_val>> =>
                /\ pc \in {"is_loading", "game_time"}
                /\ timer_state = "Running"
                /\ process # NoProcess
                /\ InTick
          /\ (pc = "ready" \/ timer_state # "Running" \/ timer_state' # timer_state) =>
                UNCHANGED <<is_loading_val, game_time_val>>]_vars

\* A tick in another timer state has returned, the values of the last
\* Running tick still being reported.
C37_Witness ==
    /\ pc = "ready"
    /\ timer_state = "Finished"
    /\ InTick
    /\ "is_loading" \in exports /\ "game_time" \in exports
    /\ ~InSeq(calls, "is_loading")
    /\ result = "Reset"
    /\ is_loading_val = Some(TRUE)
    /\ game_time_val = Some(F64(1))

\* C38: Process::path returns the executable of the process whose pid the
\* Process was opened with whenever that pid runs, None only when it does
\* not, and never the executable of another process.
C38_PathOfHookedProcess ==
    exe_path # NotAsked =>
        /\ process \in procs => exe_path = Some(ExeOf(process))
        /\ exe_path = None => process \notin procs
        /\ exe_path.some => exe_path.v = ExeOf(process)

====
